---- MODULE Spec2Model ----
(***************************************************************************)
(* A model of saged/utils.py: the label-map loaders, tissue extraction,     *)
(* cohort selection, study mapping and filtering, the seeded shuffle and    *)
(* the class-balance fraction.                                              *)
(*                                                                          *)
(* Every function of the file is one action: a state holds the function     *)
(* being called (op), its arguments (args), whether it has run (pc) and     *)
(* how it ended (result: a returned value or the exception raised).  The    *)
(* module-level random generator (rng) is the only state that outlives a    *)
(* call.                                                                    *)
(***************************************************************************)
EXTENDS Integers, Sequences, FiniteSets, TLC

VARIABLES op, pc, args, result, rng, prev

vars == <<op, pc, args, result, rng, prev>>

(***************************************************************************)
(* How a call ends.                                                         *)
(***************************************************************************)
Return(v) == [raised |-> "", value |-> v]
Raise(e) == [raised |-> e, value |-> <<>>]
Pending == [raised |-> "pending", value |-> <<>>]

(***************************************************************************)
(* Python floats, modelled as exact rationals <<numerator, denominator>>    *)
(* with a positive denominator.  Dividing by zero raises.                   *)
(***************************************************************************)
Q(n) == <<n, 1>>
QMul(a, b) == <<a[1] * b[1], a[2] * b[2]>>
QSub(a, b) == <<a[1] * b[2] - b[1] * a[2], a[2] * b[2]>>
QDiv(a, b) == <<a[1] * b[2], a[2] * b[1]>>
QGt(a, b) == a[1] * b[2] > b[1] * a[2]
QLt(a, b) == a[1] * b[2] < b[1] * a[2]
QIsZero(a) == a[1] = 0

(***************************************************************************)
(* determine_subset_fraction                                                *)
(***************************************************************************)
MaxCount == 4

Counts == 0..MaxCount

\* A slip in the second branch: the target is divided by the positive count.
determine_subset_fraction_wrong_pool(train_positive, train_negative, val_positive, val_negative) ==
    IF train_negative + train_positive = 0 \/ val_positive + val_negative = 0
    THEN Raise("ZeroDivisionError")
    ELSE
      LET train_disease_fraction == QDiv(Q(train_positive), Q(train_negative + train_positive))
          val_disease_fraction == QDiv(Q(val_positive), Q(val_positive + val_negative))
      IN  IF QGt(train_disease_fraction, val_disease_fraction)
          THEN IF QIsZero(QSub(Q(1), val_disease_fraction)) \/ train_positive = 0
               THEN Raise("ZeroDivisionError")
               ELSE LET target == QDiv(QMul(val_disease_fraction, Q(train_negative)),
                                       QSub(Q(1), val_disease_fraction))
                    IN  Return(QDiv(target, Q(train_positive)))
          ELSE IF QLt(train_disease_fraction, val_disease_fraction)
          THEN IF QIsZero(val_disease_fraction) \/ train_positive = 0
               THEN Raise("ZeroDivisionError")
               ELSE LET target == QDiv(QSub(Q(train_positive),
                                            QMul(val_disease_fraction, Q(train_positive))),
                                       val_disease_fraction)
                    IN  Return(QDiv(target, Q(train_positive)))
          ELSE Raise("UnboundLocalError")

\* Lines 390-404.  Each division raises ZeroDivisionError on a zero divisor;
\* when neither branch runs, subset_fraction is read before it was assigned.
determine_subset_fraction(train_positive, train_negative, val_positive, val_negative) ==
    IF train_negative + train_positive = 0 \/ val_positive + val_negative = 0
    THEN Raise("ZeroDivisionError")
    ELSE
      LET train_disease_fraction == QDiv(Q(train_positive), Q(train_negative + train_positive))
          val_disease_fraction == QDiv(Q(val_positive), Q(val_positive + val_negative))
      IN  IF QGt(train_disease_fraction, val_disease_fraction)
          THEN IF QIsZero(QSub(Q(1), val_disease_fraction)) \/ train_positive = 0
               THEN Raise("ZeroDivisionError")
               ELSE LET target == QDiv(QMul(val_disease_fraction, Q(train_negative)),
                                       QSub(Q(1), val_disease_fraction))
                    IN  Return(QDiv(target, Q(train_positive)))
          ELSE IF QLt(train_disease_fraction, val_disease_fraction)
          THEN IF QIsZero(val_disease_fraction) \/ train_negative = 0
               THEN Raise("ZeroDivisionError")
               ELSE LET target == QDiv(QSub(Q(train_positive),
                                            QMul(val_disease_fraction, Q(train_positive))),
                                       val_disease_fraction)
                    IN  Return(QDiv(target, Q(train_negative)))
          ELSE Raise("UnboundLocalError")

InitFraction ==
    /\ op = "determine_subset_fraction"
    /\ pc = "ready"
    /\ args \in [train_positive : Counts, train_negative : Counts,
                 val_positive : Counts, val_negative : Counts]
    /\ result = Pending
    /\ rng = 0
    /\ prev = <<>>

DetermineSubsetFraction ==
    /\ op = "determine_subset_fraction"
    /\ pc = "ready"
    /\ result' = determine_subset_fraction(args.train_positive, args.train_negative,
                                           args.val_positive, args.val_negative)
    /\ pc' = "done"
    /\ UNCHANGED <<op, args, rng, prev>>

NextFraction == DetermineSubsetFraction

SpecFraction == InitFraction /\ [][NextFraction]_vars

FractionDone == op = "determine_subset_fraction" /\ pc = "done"
TrainAbove == args.train_positive * (args.val_positive + args.val_negative)
                > args.val_positive * (args.train_positive + args.train_negative)
TrainBelow == args.train_positive * (args.val_positive + args.val_negative)
                < args.val_positive * (args.train_positive + args.train_negative)
AllPositiveCounts == /\ args.train_positive > 0 /\ args.train_negative > 0
                     /\ args.val_positive > 0 /\ args.val_negative > 0
PoolsNonEmpty == /\ args.train_positive + args.train_negative > 0
                 /\ args.val_positive + args.val_negative > 0

C2_DegenerateRejected ==
    (FractionDone /\ PoolsNonEmpty /\ (args.val_positive = 0 \/ args.val_negative = 0))
      => result.raised # ""

\* C3: with both pools non-empty and equal positive ratios, the call returns
\* normally and the fraction is 1 (retain all).
C3_EqualRatiosKeepAll ==
    (FractionDone /\ PoolsNonEmpty /\ ~TrainAbove /\ ~TrainBelow)
      => /\ result.raised = ""
         /\ result.value[1] = result.value[2]

(***************************************************************************)
(* Dictionaries.  A dict the code only reads by key is a function on its    *)
(* key set; a dict the code iterates is the sequence of its <<key, value>>  *)
(* items in iteration order, with distinct keys.                            *)
(***************************************************************************)
EmptyDict == [k \in {} |-> ""]
Put(d, k, v) == [x \in DOMAIN d \cup {k} |-> IF x = k THEN v ELSE d[x]]
SeqsUpTo(S, n) == UNION {[1..k -> S] : k \in 0..n}
Range(s) == {s[i] : i \in DOMAIN s}
DictsOver(K, V) == UNION {[D -> V] : D \in SUBSET K}
DistinctKeys(items) == \A i, j \in DOMAIN items : items[i][1] = items[j][1] => i = j
ItemDicts(K, V) == {items \in SeqsUpTo(K \X V, Cardinality(K)) : DistinctKeys(items)}

SampleIds == {"GSM1", "GSM2", "GSM3"}
Labels == {"sepsis", "healthy"}

(***************************************************************************)
(* parse_map_file and parse_label_file, from the unpickled label_to_sample  *)
(* on: the nested loop visits the <<sample, label>> pairs label by label.   *)
(***************************************************************************)
MaxLabelSamples == 2

RECURSIVE LabelSamplePairs(_)
LabelSamplePairs(label_to_sample) ==
    IF label_to_sample = <<>> THEN <<>>
    ELSE LET label == label_to_sample[1][1]
             samples == label_to_sample[1][2]
         IN  [i \in 1..Len(samples) |-> <<samples[i], label>>]
               \o LabelSamplePairs(Tail(label_to_sample))

\* Lines 70-72: every pair is written, a later label replacing an earlier one.
RECURSIVE AssignAll(_, _)
AssignAll(pairs, sample_to_label) ==
    IF pairs = <<>> THEN Return(sample_to_label)
    ELSE AssignAll(Tail(pairs), Put(sample_to_label, pairs[1][1], pairs[1][2]))

\* Lines 200-203: the assert stops the loop at the first sample already written.
RECURSIVE AssignOnce(_, _)
AssignOnce(pairs, sample_to_label) ==
    IF pairs = <<>> THEN Return(sample_to_label)
    ELSE IF pairs[1][1] \in DOMAIN sample_to_label THEN Raise("AssertionError")
    ELSE AssignOnce(Tail(pairs), Put(sample_to_label, pairs[1][1], pairs[1][2]))

parse_map_file(label_to_sample) == AssignAll(LabelSamplePairs(label_to_sample), EmptyDict)

parse_label_file(label_to_sample) == AssignOnce(LabelSamplePairs(label_to_sample), EmptyDict)

LabelMaps == ItemDicts(Labels, SeqsUpTo(SampleIds, MaxLabelSamples))

InitLabel ==
    /\ op \in {"parse_map_file", "parse_label_file"}
    /\ pc = "ready"
    /\ args \in [label_to_sample : LabelMaps]
    /\ result = Pending
    /\ rng = 0
    /\ prev = <<>>

ParseMapFile ==
    /\ op = "parse_map_file"
    /\ pc = "ready"
    /\ result' = parse_map_file(args.label_to_sample)
    /\ pc' = "done"
    /\ UNCHANGED <<op, args, rng, prev>>

ParseLabelFile ==
    /\ op = "parse_label_file"
    /\ pc = "ready"
    /\ result' = parse_label_file(args.label_to_sample)
    /\ pc' = "done"
    /\ UNCHANGED <<op, args, rng, prev>>

NextLabel == ParseMapFile \/ ParseLabelFile

SpecLabel == InitLabel /\ [][NextLabel]_vars

ListedUnderTwoLabels(label_to_sample) ==
    \E i, j \in DOMAIN label_to_sample :
        /\ i # j
        /\ Range(label_to_sample[i][2]) \cap Range(label_to_sample[j][2]) # {}

\* C4: when some sample id is listed under two labels, each of the two
\* loaders ends in an error instead of returning a sample-to-label mapping.
C4_NoSilentOverwrite ==
    (/\ op \in {"parse_map_file", "parse_label_file"}
     /\ pc = "done"
     /\ ListedUnderTwoLabels(args.label_to_sample))
      => result.raised # ""

(***************************************************************************)
(* Strings are sequences of one-character strings, so that `in`, split,     *)
(* strip and lower are computed character by character.                     *)
(***************************************************************************)
None == <<"None">>

UPPER == <<"A", "B", "C", "D", "E", "F", "G", "H", "I", "J", "K", "L", "M",
           "N", "O", "P", "Q", "R", "S", "T", "U", "V", "W", "X", "Y", "Z">>
LOWER == <<"a", "b", "c", "d", "e", "f", "g", "h", "i", "j", "k", "l", "m",
           "n", "o", "p", "q", "r", "s", "t", "u", "v", "w", "x", "y", "z">>
Whitespace == {" ", "\t", "\n", "\r", "\f"}

LowerChar(c) == IF \E i \in DOMAIN UPPER : UPPER[i] = c
                THEN LOWER[CHOOSE i \in DOMAIN UPPER : UPPER[i] = c]
                ELSE c

\* str.lower()
lower(s) == [i \in 1..Len(s) |-> LowerChar(s[i])]

\* str.strip()
RECURSIVE lstrip(_)
lstrip(s) == IF s # <<>> /\ Head(s) \in Whitespace THEN lstrip(Tail(s)) ELSE s
RECURSIVE rstrip(_)
rstrip(s) == IF s # <<>> /\ s[Len(s)] \in Whitespace
             THEN rstrip(SubSeq(s, 1, Len(s) - 1)) ELSE s
strip(s) == rstrip(lstrip(s))

\* sub in s
OccursAt(s, sub, i) == /\ i + Len(sub) - 1 <= Len(s)
                       /\ \A k \in 1..Len(sub) : s[i + k - 1] = sub[k]
Contains(s, sub) == \E i \in 1..(Len(s) + 1) : OccursAt(s, sub, i)

\* s.split(sep) for a one-character sep: the fields between the separators
RECURSIVE split(_, _)
split(s, sep) ==
    IF \A i \in DOMAIN s : s[i] # sep THEN <<s>>
    ELSE LET i == CHOOSE i \in DOMAIN s : s[i] = sep /\ \A j \in 1..(i - 1) : s[j] # sep
         IN  <<SubSeq(s, 1, i - 1)>> \o split(SubSeq(s, i + 1, Len(s)), sep)

TissueMarker == <<"t", "i", "s", "s", "u", "e", ":">>

BLOOD_KEYS ==
    { <<"b", "l", "o", "o", "d">>,
      <<"b", "l", "o", "o", "d", " ", "(", "b", "u", "f", "f", "y", " ", "c", "o", "a", "t", ")">>,
      <<"b", "l", "o", "o", "d", " ", "c", "e", "l", "l", "s">>,
      <<"b", "l", "o", "o", "d", " ", "m", "o", "n", "o", "c", "y", "t", "e", "s">>,
      <<"b", "l", "o", "o", "d", " ", "s", "a", "m", "p", "l", "e">>,
      <<"c", "e", "l", "l", "s", " ", "f", "r", "o", "m", " ", "w", "h", "o", "l", "e", " ", "b", "l", "o", "o", "d">>,
      <<"f", "r", "e", "s", "h", " ", "v", "e", "n", "o", "u", "s", " ", "b", "l", "o", "o", "d", " ", "a", "n", "t", "i", "c", "o", "a", "g", "u", "l", "a", "t", "e", "d", " ", "w", "i", "t", "h", " ", "5", "0", " ", "g", "/", "m", "l", " ", "t", "h", "r", "o", "m", "b", "i", "n", "-", "i", "n", "h", "i", "b", "i", "t", "o", "r", " ", "l", "e", "p", "i", "r", "u", "d", "i", "n">>,
      <<"h", "e", "a", "l", "t", "h", "y", " ", "h", "u", "m", "a", "n", " ", "b", "l", "o", "o", "d">>,
      <<"h", "o", "s", "t", " ", "p", "e", "r", "i", "p", "h", "e", "r", "a", "l", " ", "b", "l", "o", "o", "d">>,
      <<"l", "e", "u", "k", "e", "m", "i", "c", " ", "p", "e", "r", "i", "p", "h", "e", "r", "a", "l", " ", "b", "l", "o", "o", "d">>,
      <<"m", "o", "n", "o", "c", "y", "t", "e", "s", " ", "i", "s", "o", "l", "a", "t", "e", "d", " ", "f", "r", "o", "m", " ", "p", "b", "m", "c">>,
      <<"n", "o", "r", "m", "a", "l", " ", "p", "e", "r", "i", "p", "h", "e", "r", "a", "l", " ", "b", "l", "o", "o", "d", " ", "c", "e", "l", "l", "s">>,
      <<"p", "b", "m", "c">>,
      <<"p", "b", "m", "c", "s">>,
      <<"p", "e", "r", "i", "p", "h", "e", "r", "a", "l", " ", "b", "l", "o", "o", "d">>,
      <<"p", "e", "r", "i", "p", "h", "e", "r", "a", "l", " ", "b", "l", "o", "o", "d", " ", "(", "p", "b", ")">>,
      <<"p", "e", "r", "i", "p", "h", "e", "r", "a", "l", " ", "b", "l", "o", "o", "d", " ", "m", "o", "n", "o", "n", "u", "c", "l", "e", "a", "r", " ", "c", "e", "l", "l">>,
      <<"p", "e", "r", "i", "p", "h", "e", "r", "a", "l", " ", "b", "l", "o", "o", "d", " ", "m", "o", "n", "o", "n", "u", "c", "l", "e", "a", "r", " ", "c", "e", "l", "l", " ", "(", "p", "b", "m", "c", ")">>,
      <<"p", "e", "r", "i", "p", "h", "e", "r", "a", "l", " ", "b", "l", "o", "o", "d", " ", "m", "o", "n", "o", "n", "u", "c", "l", "e", "a", "r", " ", "c", "e", "l", "l", "s">>,
      <<"p", "e", "r", "i", "p", "h", "e", "r", "a", "l", " ", "b", "l", "o", "o", "d", " ", "m", "o", "n", "o", "n", "u", "c", "l", "e", "a", "r", " ", "c", "e", "l", "l", "s", " ", "(", "p", "b", "m", "c", ")">>,
      <<"p", "e", "r", "i", "p", "h", "e", "r", "a", "l", " ", "b", "l", "o", "o", "d", " ", "m", "o", "n", "o", "n", "u", "c", "l", "e", "a", "r", " ", "c", "e", "l", "l", "s", " ", "(", "p", "b", "m", "c", "s", ")">>,
      <<"p", "e", "r", "i", "p", "h", "e", "r", "a", "l", " ", "b", "l", "o", "o", "d", " ", "m", "o", "n", "o", "n", "u", "c", "l", "e", "a", "r", " ", "c", "e", "l", "l", "s", " ", "(", "p", "b", "m", "c", "s", ")", " ", "f", "r", "o", "m", " ", "h", "e", "a", "l", "t", "h", "y", " ", "d", "o", "n", "o", "r", "s">>,
      <<"p", "e", "r", "i", "p", "h", "e", "r", "a", "l", " ", "m", "a", "t", "e", "r", "n", "a", "l", " ", "b", "l", "o", "o", "d">>,
      <<"p", "e", "r", "i", "p", "h", "e", "r", "a", "l", " ", "w", "h", "o", "l", "e", " ", "b", "l", "o", "o", "d">>,
      <<"p", "e", "r", "i", "p", "h", "r", "a", "l", " ", "b", "l", "o", "o", "d">>,
      <<"p", "h", "e", "r", "i", "p", "h", "e", "r", "a", "l", " ", "b", "l", "o", "o", "d">>,
      <<"w", "h", "o", "l", "e", " ", "b", "l", "o", "o", "d">>,
      <<"w", "h", "o", "l", "e", " ", "b", "l", "o", "o", "d", " ", "(", "w", "b", ")">>,
      <<"w", "h", "o", "l", "e", " ", "b", "l", "o", "o", "d", ",", " ", "m", "a", "t", "e", "r", "n", "a", "l", " ", "p", "e", "r", "i", "p", "h", "e", "r", "a", "l">>,
      <<"w", "h", "o", "l", "e", " ", "v", "e", "n", "o", "u", "s", " ", "b", "l", "o", "o", "d">> }

(***************************************************************************)
(* get_tissue.  A subscript raises KeyError on a missing key and IndexError *)
(* on an empty list; the function catches exactly these two.                *)
(***************************************************************************)
\* The last field of the split taken instead of the second.
TissueOfEntry_last_field(characteristic) ==
    LET fields == split(characteristic, ":")
    IN  lower(strip(fields[Len(fields)]))

\* Lines 93-94: split(':')[1], then strip() and lower()
TissueOfEntry(characteristic) == lower(strip(split(characteristic, ":")[2]))

\* Lines 91-95 and 104: the loop over the characteristics
RECURSIVE ScanCharacteristics(_)
ScanCharacteristics(ch1) ==
    IF ch1 = <<>> THEN Return(None)
    ELSE IF Contains(Head(ch1), TissueMarker)
         THEN Return(TissueOfEntry(Head(ch1)))
         ELSE ScanCharacteristics(Tail(ch1))

\* Line 90: the chain of subscripts
LookupCharacteristics(sample_metadata, sample) ==
    IF sample \notin DOMAIN sample_metadata THEN Raise("KeyError")
    ELSE IF "refinebio_annotations" \notin DOMAIN sample_metadata[sample] THEN Raise("KeyError")
    ELSE IF Len(sample_metadata[sample].refinebio_annotations) = 0 THEN Raise("IndexError")
    ELSE IF "characteristics_ch1" \notin DOMAIN sample_metadata[sample].refinebio_annotations[1]
         THEN Raise("KeyError")
    ELSE Return(sample_metadata[sample].refinebio_annotations[1].characteristics_ch1)

\* The second except clause left out: IndexError escapes.
CatchKeyErrorOnly(r) ==
    IF r.raised = "KeyError" THEN Return(None) ELSE r

\* The except clauses of lines 97-103
CatchKeyAndIndexError(r) ==
    IF r.raised \in {"KeyError", "IndexError"} THEN Return(None) ELSE r

get_tissue(sample_metadata, sample) ==
    LET ch1 == LookupCharacteristics(sample_metadata, sample)
    IN  CatchKeyAndIndexError(IF ch1.raised # "" THEN ch1
                              ELSE ScanCharacteristics(ch1.value))

(***************************************************************************)
(* Inputs of get_tissue.  A characteristics list is some entries without    *)
(* the marker, then one entry built around the marker, then possibly a      *)
(* second entry with the marker.                                            *)
(***************************************************************************)
MaxPrefix == 1
MaxSuffix == 2
MaxLeading == 1

AffixChars == {"B", " ", ":"}
WholeBloodEntry == <<"t", "i", "s", "s", "u", "e", ":", " ", "W", "h", "o", "l", "e", " ", "B", "l", "o", "o", "d", " ">>
PbmcEntry == <<"t", "i", "s", "s", "u", "e", ":", "P", "B", "M", "C">>
LiverEntry == <<"t", "i", "s", "s", "u", "e", ":", " ", "l", "i", "v", "e", "r">>
CapitalisedEntry == <<"T", "i", "s", "s", "u", "e", ":", " ", "b", "l", "o", "o", "d">>
AgeEntry == <<"a", "g", "e", ":", " ", "5">>
BareWordEntry == <<"t", "i", "s", "s", "u", "e">>

MarkerEntries ==
    {p \o TissueMarker \o s : p \in SeqsUpTo(AffixChars, MaxPrefix),
                              s \in SeqsUpTo(AffixChars, MaxSuffix)}
      \cup {WholeBloodEntry, PbmcEntry, LiverEntry}
NoMarkerEntries == {<<>>, CapitalisedEntry, AgeEntry, BareWordEntry}
Leads == SeqsUpTo(NoMarkerEntries, MaxLeading)
ChLists == Leads \cup {lead \o <<e>> \o trail :
                         lead \in Leads, e \in MarkerEntries, trail \in {<<>>, <<LiverEntry>>}}

BareAnnotation == [geo_accession |-> "x"]
Annotations == {BareAnnotation}
                 \cup {[geo_accession |-> "x", characteristics_ch1 |-> l] : l \in ChLists}
AnnotationLists == {<<>>} \cup {<<a>> : a \in Annotations}
                     \cup {<<a, BareAnnotation>> : a \in Annotations}
BareRecord == [refinebio_title |-> "t"]
SampleRecords == {BareRecord}
                   \cup {[refinebio_title |-> "t", refinebio_annotations |-> al] :
                           al \in AnnotationLists}

InitTissue ==
    /\ op = "get_tissue"
    /\ pc = "ready"
    /\ \E rec \in SampleRecords, s \in {"GSM1", "GSM2"} :
         args = [sample_metadata |-> ("GSM1" :> rec), sample |-> s]
    /\ result = Pending
    /\ rng = 0
    /\ prev = <<>>

GetTissue ==
    /\ op = "get_tissue"
    /\ pc = "ready"
    /\ result' = get_tissue(args.sample_metadata, args.sample)
    /\ pc' = "done"
    /\ UNCHANGED <<op, args, rng, prev>>

NextTissue == GetTissue

SpecTissue == InitTissue /\ [][NextTissue]_vars

TissueDone == op = "get_tissue" /\ pc = "done"
HasRecord == args.sample \in DOMAIN args.sample_metadata
ArgRecord == args.sample_metadata[args.sample]
HasAnnotations == HasRecord /\ "refinebio_annotations" \in DOMAIN ArgRecord
HasFirstAnnotation == HasAnnotations /\ Len(ArgRecord.refinebio_annotations) > 0
HasCharacteristics ==
    HasFirstAnnotation /\ "characteristics_ch1" \in DOMAIN ArgRecord.refinebio_annotations[1]
ArgCharacteristics == ArgRecord.refinebio_annotations[1].characteristics_ch1
HasMarkerEntry ==
    HasCharacteristics
      /\ \E i \in DOMAIN ArgCharacteristics : Contains(ArgCharacteristics[i], TissueMarker)
FirstMarkerEntry ==
    ArgCharacteristics[CHOOSE i \in DOMAIN ArgCharacteristics :
        /\ Contains(ArgCharacteristics[i], TissueMarker)
        /\ \A j \in 1..(i - 1) : ~Contains(ArgCharacteristics[j], TissueMarker)]

\* C5: for a sample record that lacks 'refinebio_annotations', or whose
\* annotation list is empty, or whose first annotation lacks
\* 'characteristics_ch1', or whose characteristics have no entry containing
\* 'tissue:', get_tissue returns None and raises nothing.
C5_AbsentIsNone ==
    (TissueDone /\ HasRecord /\ ~HasMarkerEntry)
      => (result.raised = "" /\ result.value = None)

C5_Witness ==
    /\ TissueDone /\ HasAnnotations
    /\ Len(ArgRecord.refinebio_annotations) = 0
    /\ result.raised = "" /\ result.value = None

Colons(e) == {i \in DOMAIN e : e[i] = ":"}
Least(S) == CHOOSE i \in S : \A j \in S : i <= j
MarkerAt(e) == Least({i \in DOMAIN e : OccursAt(e, TissueMarker, i)})
AfterMarker(e) == SubSeq(e, MarkerAt(e) + Len(TissueMarker), Len(e))
AfterFirstColon(e) == SubSeq(e, Least(Colons(e)) + 1, Len(e))
SecondField(e) ==
    LET c1 == Least(Colons(e))
        later == {i \in Colons(e) : i > c1}
    IN  SubSeq(e, c1 + 1, IF later = {} THEN Len(e) ELSE Least(later) - 1)

\* C6 as claimed: when some entry contains 'tissue:', get_tissue returns, for
\* the first such entry, the lower-cased, trimmed substring after the colon
\* (the marker's colon, or the entry's first colon), whatever the entry.
C6_SubstringAfterColon ==
    (TissueDone /\ HasMarkerEntry) =>
      /\ result.raised = ""
      /\ \/ result.value = lower(strip(AfterMarker(FirstMarkerEntry)))
         \/ result.value = lower(strip(AfterFirstColon(FirstMarkerEntry)))

\* C6 as amended: when some entry contains 'tissue:', get_tissue returns, for
\* the first such entry, the lower-cased, trimmed text between the entry's
\* first colon and its second colon (or its end when it has no second
\* colon); when the entry holds exactly one colon, that is the substring
\* after the marker.
C6_SecondField ==
    (TissueDone /\ HasMarkerEntry) =>
      /\ result.raised = ""
      /\ result.value = lower(strip(SecondField(FirstMarkerEntry)))
      /\ Cardinality(Colons(FirstMarkerEntry)) = 1
           => result.value = lower(strip(AfterMarker(FirstMarkerEntry)))

C6_Witness ==
    /\ TissueDone /\ HasMarkerEntry
    /\ Len(ArgCharacteristics) = 3
    /\ ~Contains(ArgCharacteristics[1], TissueMarker)
    /\ Cardinality(Colons(ArgCharacteristics[2])) = 2
    /\ ArgCharacteristics[3] = LiverEntry
    /\ result.raised = "" /\ result.value = <<"b">>

(***************************************************************************)
(* get_blood_sample_ids                                                     *)
(***************************************************************************)
\* Lines 125-129: the loop over the keys of metadata['samples'].  get_tissue
\* returns for every input, so its value is the tissue.
RECURSIVE CollectUnlabeled(_, _, _, _)
CollectUnlabeled(todo, sample_metadata, labeled_samples, unlabeled_samples) ==
    IF todo = {} THEN unlabeled_samples
    ELSE LET sample == CHOOSE s \in todo : TRUE
             tissue == get_tissue(sample_metadata, sample).value
         IN  CollectUnlabeled(todo \ {sample}, sample_metadata, labeled_samples,
                              IF tissue \in BLOOD_KEYS /\ sample \notin labeled_samples
                              THEN unlabeled_samples \cup {sample}
                              ELSE unlabeled_samples)

\* The union of line 131 forgotten: only the unlabeled blood samples come back.
get_blood_sample_ids_no_union(metadata, sample_to_label) ==
    LET sample_metadata == metadata.samples
        labeled_samples == DOMAIN sample_to_label
    IN  Return(CollectUnlabeled(DOMAIN sample_metadata, sample_metadata, labeled_samples, {}))

get_blood_sample_ids(metadata, sample_to_label) ==
    LET sample_metadata == metadata.samples
        labeled_samples == DOMAIN sample_to_label
        unlabeled_samples == CollectUnlabeled(DOMAIN sample_metadata, sample_metadata,
                                              labeled_samples, {})
    IN  Return(labeled_samples \cup unlabeled_samples)

WithCharacteristics(ch1) ==
    [refinebio_title |-> "t",
     refinebio_annotations |-> <<[geo_accession |-> "x", characteristics_ch1 |-> ch1]>>]
WholeBloodRecord == WithCharacteristics(<<WholeBloodEntry>>)
PbmcRecord == WithCharacteristics(<<AgeEntry, PbmcEntry>>)
LiverRecord == WithCharacteristics(<<LiverEntry>>)
CapitalisedRecord == WithCharacteristics(<<CapitalisedEntry>>)
UnannotatedRecord == [refinebio_title |-> "t", refinebio_annotations |-> <<>>]
CohortRecords == {BareRecord, UnannotatedRecord, WholeBloodRecord, PbmcRecord,
                  LiverRecord, CapitalisedRecord}

InitCohort ==
    /\ op = "get_blood_sample_ids"
    /\ pc = "ready"
    /\ \E samples \in DictsOver(SampleIds, CohortRecords),
          sample_to_label \in DictsOver(SampleIds, Labels) :
         args = [metadata |-> [samples |-> samples, experiments |-> <<>>],
                 sample_to_label |-> sample_to_label]
    /\ result = Pending
    /\ rng = 0
    /\ prev = <<>>

GetBloodSampleIds ==
    /\ op = "get_blood_sample_ids"
    /\ pc = "ready"
    /\ result' = get_blood_sample_ids(args.metadata, args.sample_to_label)
    /\ pc' = "done"
    /\ UNCHANGED <<op, args, rng, prev>>

NextCohort == GetBloodSampleIds

SpecCohort == InitCohort /\ [][NextCohort]_vars

CohortDone == op = "get_blood_sample_ids" /\ pc = "done"
Labeled == DOMAIN args.sample_to_label
InMetadata == DOMAIN args.metadata.samples
BloodTissue(s) == get_tissue(args.metadata.samples, s).value \in BLOOD_KEYS

CohortIsLabeledPlusBlood ==
    CohortDone =>
      /\ result.raised = ""
      /\ result.value \subseteq SampleIds
      /\ \A s \in Labeled : s \in result.value
      /\ \A s \in SampleIds \ Labeled :
           s \in result.value <=> (s \in InMetadata /\ BloodTissue(s))
      /\ \A s \in InMetadata \ Labeled :
           /\ args.metadata.samples[s] \in {WholeBloodRecord, PbmcRecord} => s \in result.value
           /\ args.metadata.samples[s] \in {LiverRecord, CapitalisedRecord, BareRecord,
                                            UnannotatedRecord} => s \notin result.value

\* C7: get_blood_sample_ids returns exactly L \cup U, L the keys of
\* sample_to_label and U the samples of metadata['samples'] outside L whose
\* tissue is in the blood vocabulary: every labeled sample is in the result
\* whatever its tissue and whether or not the metadata hold it, an unlabeled
\* sample is in the result iff its tissue is in the vocabulary, and the call
\* leaves both arguments as they were.
C7_Cohort == []CohortIsLabeledPlusBlood /\ [][args' = args]_vars

C7_Witness ==
    /\ CohortDone
    /\ "GSM1" \in Labeled /\ "GSM1" \notin InMetadata
    /\ "GSM2" \notin Labeled /\ "GSM2" \in InMetadata
    /\ args.metadata.samples["GSM2"] = WholeBloodRecord
    /\ "GSM3" \notin Labeled /\ "GSM3" \in InMetadata
    /\ args.metadata.samples["GSM3"] = LiverRecord
    /\ result.raised = "" /\ result.value = {"GSM1", "GSM2"}

(***************************************************************************)
(* map_sample_to_study and get_samples_in_studies                           *)
(***************************************************************************)
MaxAccessions == 2
MaxSampleIds == 2
MaxSamples == 3

Studies == {"SRP1", "SRP2"}

\* Lines 267-268: the <<accession, study>> pairs in the order the loops visit them
RECURSIVE StudyAccessionPairs(_)
StudyAccessionPairs(experiments) ==
    IF experiments = <<>> THEN <<>>
    ELSE LET study == experiments[1][1]
             codes == experiments[1][2].sample_accession_codes
         IN  [i \in 1..Len(codes) |-> <<codes[i], study>>]
               \o StudyAccessionPairs(Tail(experiments))

RECURSIVE RecordStudies_first_wins(_, _, _)
RecordStudies_first_wins(pairs, id_set, sample_to_study) ==
    IF pairs = <<>> THEN sample_to_study
    ELSE RecordStudies_first_wins(Tail(pairs), id_set,
             IF pairs[1][1] \in id_set /\ pairs[1][1] \notin DOMAIN sample_to_study
             THEN Put(sample_to_study, pairs[1][1], pairs[1][2])
             ELSE sample_to_study)

\* Lines 269-270
RECURSIVE RecordStudies(_, _, _)
RecordStudies(pairs, id_set, sample_to_study) ==
    IF pairs = <<>> THEN sample_to_study
    ELSE RecordStudies(Tail(pairs), id_set,
             IF pairs[1][1] \in id_set
             THEN Put(sample_to_study, pairs[1][1], pairs[1][2])
             ELSE sample_to_study)

\* The guard that keeps the first study written for an accession.
map_sample_to_study_first_wins(metadata_json, sample_ids) ==
    LET experiments == metadata_json.experiments
        id_set == Range(sample_ids)
    IN  Return(RecordStudies_first_wins(StudyAccessionPairs(experiments), id_set, EmptyDict))

map_sample_to_study(metadata_json, sample_ids) ==
    LET experiments == metadata_json.experiments
        id_set == Range(sample_ids)
    IN  Return(RecordStudies(StudyAccessionPairs(experiments), id_set, EmptyDict))

\* A lookup with a default: a sample without a study is left out instead of
\* raising.
RECURSIVE FilterByStudy_skip_unknown(_, _, _, _)
FilterByStudy_skip_unknown(samples, studies, sample_to_study, subset_samples) ==
    IF samples = <<>> THEN Return(subset_samples)
    ELSE FilterByStudy_skip_unknown(Tail(samples), studies, sample_to_study,
             IF Head(samples) \in DOMAIN sample_to_study
                  /\ sample_to_study[Head(samples)] \in studies
             THEN Append(subset_samples, Head(samples))
             ELSE subset_samples)

\* Line 291: the comprehension, left to right; the subscript raises KeyError
RECURSIVE FilterByStudy(_, _, _, _)
FilterByStudy(samples, studies, sample_to_study, subset_samples) ==
    IF samples = <<>> THEN Return(subset_samples)
    ELSE IF Head(samples) \notin DOMAIN sample_to_study THEN Raise("KeyError")
    ELSE FilterByStudy(Tail(samples), studies, sample_to_study,
             IF sample_to_study[Head(samples)] \in studies
             THEN Append(subset_samples, Head(samples))
             ELSE subset_samples)

get_samples_in_studies_skip_unknown(samples, studies, sample_to_study) ==
    FilterByStudy_skip_unknown(samples, studies, sample_to_study, <<>>)

get_samples_in_studies(samples, studies, sample_to_study) ==
    FilterByStudy(samples, studies, sample_to_study, <<>>)

Experiments ==
    ItemDicts(Studies, {[sample_accession_codes |-> codes] :
                          codes \in SeqsUpTo(SampleIds, MaxAccessions)})

InitStudies ==
    \/ /\ op = "map_sample_to_study"
       /\ pc = "ready"
       /\ \E experiments \in Experiments, sample_ids \in SeqsUpTo(SampleIds, MaxSampleIds) :
            args = [metadata_json |-> [samples |-> EmptyDict, experiments |-> experiments],
                    sample_ids |-> sample_ids]
       /\ result = Pending
       /\ rng = 0
       /\ prev = <<>>
    \/ /\ op = "get_samples_in_studies"
       /\ pc = "ready"
       /\ args \in [samples : SeqsUpTo(SampleIds, MaxSamples),
                    studies : SUBSET Studies,
                    sample_to_study : DictsOver(SampleIds, Studies)]
       /\ result = Pending
       /\ rng = 0
       /\ prev = <<>>

MapSampleToStudy ==
    /\ op = "map_sample_to_study"
    /\ pc = "ready"
    /\ result' = map_sample_to_study(args.metadata_json, args.sample_ids)
    /\ pc' = "done"
    /\ UNCHANGED <<op, args, rng, prev>>

GetSamplesInStudies ==
    /\ op = "get_samples_in_studies"
    /\ pc = "ready"
    /\ result' = get_samples_in_studies(args.samples, args.studies, args.sample_to_study)
    /\ pc' = "done"
    /\ UNCHANGED <<op, args, rng, prev>>

NextStudies == MapSampleToStudy \/ GetSamplesInStudies

SpecStudies == InitStudies /\ [][NextStudies]_vars

\* C8: when every element of samples is a key of sample_to_study, the result
\* is the subsequence of samples (order and repeats kept) whose study is in
\* studies; when some element is not a key, the call raises KeyError and
\* returns no list, whatever studies holds.
C8_FilterOrFail ==
    (op = "get_samples_in_studies" /\ pc = "done") =>
      IF Range(args.samples) \subseteq DOMAIN args.sample_to_study
      THEN /\ result.raised = ""
           /\ LET InStudies(s) == args.sample_to_study[s] \in args.studies
              IN  result.value = SelectSeq(args.samples, InStudies)
      ELSE result.raised = "KeyError"

C8_Witness ==
    /\ op = "get_samples_in_studies" /\ pc = "done"
    /\ args.samples = <<"GSM2", "GSM1", "GSM2">>
    /\ args.studies = {"SRP1"}
    /\ DOMAIN args.sample_to_study = {"GSM1", "GSM2"}
    /\ result.raised = "" /\ result.value = <<"GSM2", "GSM2">>

ListedBy(experiments, s) ==
    {i \in DOMAIN experiments : s \in Range(experiments[i][2].sample_accession_codes)}
Greatest(S) == CHOOSE i \in S : \A j \in S : j <= i

\* C9: the keys of the result are the ids of sample_ids that some study
\* lists among its sample_accession_codes, and each key maps to the last
\* study, in the iteration order of metadata_json['experiments'], that
\* lists it.
C9_LastStudyWins ==
    (op = "map_sample_to_study" /\ pc = "done") =>
      LET experiments == args.metadata_json.experiments
      IN  /\ result.raised = ""
          /\ DOMAIN result.value =
               {s \in Range(args.sample_ids) : ListedBy(experiments, s) # {}}
          /\ \A s \in DOMAIN result.value :
               result.value[s] = experiments[Greatest(ListedBy(experiments, s))][1]

C9_Witness ==
    /\ op = "map_sample_to_study" /\ pc = "done"
    /\ Len(args.metadata_json.experiments) = 2
    /\ args.metadata_json.experiments[1][1] = "SRP2"
    /\ Cardinality(ListedBy(args.metadata_json.experiments, "GSM1")) = 2
    /\ ListedBy(args.metadata_json.experiments, "GSM2") # {}
    /\ args.sample_ids = <<"GSM1", "GSM3">>
    /\ result.raised = "" /\ DOMAIN result.value = {"GSM1"}
    /\ result.value["GSM1"] = "SRP1"

(***************************************************************************)
(* deterministic_shuffle_set.  The module-level generator of `random` is a  *)
(* deterministic machine: a draw moves it to the next state and yields a    *)
(* number fixed by that state.  list(set_) lists the set in an order the    *)
(* caller does not control.                                                 *)
(***************************************************************************)
NumItems == 2
RngStates == 3

Items == 1..NumItems
Orderings(S) == {o \in [1..Cardinality(S) -> S] : Range(o) = S}

NextRng(x) == (x + 1) % RngStates
randbelow(x, n) == x % n

\* random.sample on a population of at most 21 elements: k draws from a pool,
\* each drawn slot refilled with the pool's last live element.
RECURSIVE SamplePool(_, _, _, _)
SamplePool(pool, k, x, out) ==
    IF k = 0 THEN [out |-> out, rng |-> x]
    ELSE LET n == Len(pool)
             x1 == NextRng(x)
             j == randbelow(x1, n) + 1
         IN  SamplePool(SubSeq([pool EXCEPT ![j] = pool[n]], 1, n - 1),
                        k - 1, x1, Append(out, pool[j]))

sorted(l) == SortSeq(l, LAMBDA a, b : a < b)

\* The sort left out: the sample is drawn from list(set_) as it comes.
deterministic_shuffle_set_unsorted(iteration, x) ==
    SamplePool(iteration, Len(iteration), x, <<>>)

\* Line 365, iteration being list(set_) and x the generator's state
deterministic_shuffle_set(iteration, x) ==
    SamplePool(sorted(iteration), Len(iteration), x, <<>>)

InitShuffle ==
    /\ op = "deterministic_shuffle_set"
    /\ pc = "ready"
    /\ args = [set_ |-> {}, iteration |-> <<>>, rng |-> 0]
    /\ result = Pending
    /\ rng \in 0..(RngStates - 1)
    /\ prev = <<>>

\* The caller seeds the module-level generator.
Seed ==
    /\ op = "deterministic_shuffle_set"
    /\ \E x \in 0..(RngStates - 1) : rng' = x
    /\ UNCHANGED <<op, pc, args, result, prev>>

\* A call; prev keeps the call before it.
DeterministicShuffleSet ==
    /\ op = "deterministic_shuffle_set"
    /\ \E set_ \in SUBSET Items : \E iteration \in Orderings(set_) :
         LET r == deterministic_shuffle_set(iteration, rng)
         IN  /\ args' = [set_ |-> set_, iteration |-> iteration, rng |-> rng]
             /\ result' = Return(r.out)
             /\ rng' = r.rng
    /\ prev' = IF pc = "done"
               THEN <<[set_ |-> args.set_, iteration |-> args.iteration,
                       rng |-> args.rng, out |-> result.value]>>
               ELSE <<>>
    /\ pc' = "done"
    /\ UNCHANGED op

NextShuffle == Seed \/ DeterministicShuffleSet

SpecShuffle == InitShuffle /\ [][NextShuffle]_vars

SameSetSameGenerator ==
    /\ op = "deterministic_shuffle_set" /\ pc = "done"
    /\ Len(prev) = 1
    /\ prev[1].set_ = args.set_
    /\ prev[1].rng = args.rng

\* C10: two calls of deterministic_shuffle_set made with equal sets and the
\* generator in equal states return the same sequence, whatever the order
\* in which each call's set lists its elements.
C10_Reproducible ==
    SameSetSameGenerator => (result.raised = "" /\ result.value = prev[1].out)

C10_Witness ==
    /\ SameSetSameGenerator
    /\ Cardinality(args.set_) = NumItems
    /\ prev[1].iteration # args.iteration
    /\ args.iteration # sorted(args.iteration)
    /\ result.value # sorted(args.iteration)
    /\ result.value = prev[1].out

(***************************************************************************)
(* The whole file: any of its functions may be the one called.              *)
(***************************************************************************)
Init == InitFraction \/ InitLabel \/ InitTissue \/ InitCohort \/ InitStudies \/ InitShuffle

Next ==
    \/ DetermineSubsetFraction
    \/ ParseMapFile
    \/ ParseLabelFile
    \/ GetTissue
    \/ GetBloodSampleIds
    \/ MapSampleToStudy
    \/ GetSamplesInStudies
    \/ Seed
    \/ DeterministicShuffleSet

Spec == Init /\ [][Next]_vars

====
